---- MODULE Spec2Model ----
(***************************************************************************)
(* Room occupancy and maintenance-ticket consistency of the PMS admin      *)
(* application: the store (properties, rooms, tenants, maintenance_logs),  *)
(* the browser sessions, and the handlers of TenantManagement,             *)
(* MaintenanceManagement and PropertyManagement that write to the store.   *)
(* Every await of a handler is a step boundary: other clients' steps may   *)
(* interleave there.                                                       *)
(***************************************************************************)
EXTENDS Integers, Sequences, FiniteSets, TLC

\* ------------------------------------------------------------------ bounds
MaxTenants == 3
MaxTickets == 2
\* Length of the runs explored when every operation is enabled together.
MaxSteps == 7

\* ------------------------------------------------------------ value spaces
Clients == {"c1", "c2"}
RoomIds == {"r1", "r2", "r3"}
PropertyIds == {"p1", "p2", "p3"}
Users == {"admin1", "tenant1", "authority1"}
\* The identities of the tenant role: tenant1 has a tenancy, tenant2 has none.
TenantUsers == {"tenant1", "tenant2"}
NoUser == "null"
NoRole == "null"
NoRoom == ""
NoError == "null"
GatewayMessage == "gateway error"
\* A notification is its title when it reports success and the error's message otherwise.
Success == "Success"

\* profiles.role of each identity (user_role enum)
user_role == {"admin", "tenant", "public_authority"}

Role(u) ==
  CASE u = "admin1" -> "admin"
    [] u = "tenant1" -> "tenant"
    [] u = "tenant2" -> "tenant"
    [] u = "authority1" -> "public_authority"
    [] OTHER -> NoRole

maintenance_status == {"open", "in_progress", "resolved"}

\* Column defaults the store applies when an insert omits the column.
DefaultIsActive == TRUE
DefaultIsOccupied == FALSE
DefaultStatus == "open"

\* ------------------------------------------------------------------- state
VARIABLES
  properties,      \* store: set of property ids
  rooms,           \* store: room id -> [property_id, is_occupied]
  tenants,         \* store: sequence of tenant rows, in insertion order
  maintenance_logs,\* store: sequence of ticket rows, in insertion order
  session,         \* client -> identity the gateway holds for that browser
  auth,            \* client -> [user, userRole, loading] as useAuth reports it
  availableRooms,  \* client -> TenantManagement.availableRooms (room ids)
  fetchPending,    \* client -> set of fetches issued and not yet answered
  tm,              \* client -> handleCreateTenant in flight: [pc, room_id]
  mmRooms,         \* client -> MaintenanceManagement room list (rows)
  maintenanceLogs, \* client -> MaintenanceManagement.maintenanceLogs (rows shown)
  toast,           \* client -> last notification shown
  route,           \* client -> the route the browser is on
  pm,              \* client -> PropertyManagement: [selectedPropertyId, rooms, fetching]
  paProperties,    \* client -> PublicAuthorityDashboard.properties (rows)
  td,              \* client -> TenantDashboard: [tenantInfo, maintenanceLogs, fetching]
  tmTenants,       \* client -> TenantManagement.tenants (rows shown)
  view,            \* the list and the filter values a list view is rendered from
  rendered,        \* what that view shows: its filtered list
  steps            \* number of steps taken in a length-bounded run

store == <<properties, rooms, tenants, maintenance_logs>>
vars == <<properties, rooms, tenants, maintenance_logs, session, auth,
          availableRooms, fetchPending, tm, mmRooms, maintenanceLogs, toast,
          route, pm, paProperties, td, tmTenants, view, rendered, steps>>

\* --------------------------------------------------------------- Dashboard
\* Mutant: the tenant dashboard is rendered for every signed-in user.
DashboardTenantAlways(a) ==
  IF a.loading THEN {}
  ELSE IF a.user = NoUser THEN {}
  ELSE {d \in user_role : a.userRole = d \/ d = "tenant"}

\* part_003: which role dashboards the Dashboard page renders.
Dashboard(a) ==
  IF a.loading THEN {}
  ELSE IF a.user = NoUser THEN {}
  ELSE {d \in user_role : a.userRole = d}

\* AdminDashboard mounts TenantManagement, MaintenanceManagement and
\* PropertyManagement; their handlers can only be invoked while it is rendered.
AdminMounted(c) == "admin" \in Dashboard(auth[c])

\* The fetches the mount effects of TenantManagement and MaintenanceManagement issue.
MountFetches == {"tenants", "availableRooms", "rooms", "maintenance_logs"}

\* The fetch the mount effect of PublicAuthorityDashboard issues.
PublicAuthorityFetches == {"properties"}

\* The fetches the mount effects of the dashboards in ds issue.
FetchesOf(ds) ==
  (IF "admin" \in ds THEN MountFetches ELSE {})
    \cup (IF "public_authority" \in ds THEN PublicAuthorityFetches ELSE {})

\* The routes: the dashboard page and the sign-in page.
DashboardRoute == "/"
AuthRoute == "/auth"

\* Mutant: the effect of Dashboard never navigates.
DashboardEffectNoRedirect(a, r) == r

\* The effect of Dashboard: navigate('/auth') once loading has finished
\* without a user; r is the route the browser is on otherwise.
DashboardEffect(a, r) ==
  IF ~a.loading /\ a.user = NoUser THEN AuthRoute ELSE r

\* No handleCreateTenant in flight.
TmIdle == [pc |-> "idle", room_id |-> NoRoom]

\* PropertyManagement as mounted: no property selected, no rooms listed, no
\* fetchRooms in flight.
NoProperty == ""
PmInit == [selectedPropertyId |-> NoProperty, rooms |-> {}, fetching |-> {}]

\* ---------------------------------------------------------- TenantDashboard
\* The requests of TenantDashboard: each carries the value its query was
\* built with.
TenantInfoRequest(user) ==
  [fetch |-> "tenantInfo", profile_id |-> user, room_id |-> NoRoom]
TenantLogsRequest(room_id) ==
  [fetch |-> "maintenance_logs", profile_id |-> NoUser, room_id |-> room_id]

\* TenantDashboard as mounted: tenantInfo null (the empty set), no logs.
TdInit == [tenantInfo |-> {}, maintenanceLogs |-> <<>>, fetching |-> {}]

\* The requests fetchMaintenanceLogs issues when called in a render whose
\* tenantInfo is the given one: none without a tenantInfo that has a room_id.
fetchMaintenanceLogsRequests(tenantInfo) ==
  {TenantLogsRequest(info.room_id) : info \in {i \in tenantInfo : i.room_id # NoRoom}}

\* The effect of TenantDashboard on [user], run in a render whose state is t:
\* with a user it calls fetchTenantInfo and fetchMaintenanceLogs.
TenantDashboardEffect(t, user) ==
  IF user = NoUser THEN t
  ELSE [t EXCEPT !.fetching = @ \cup {TenantInfoRequest(user)}
                                 \cup fetchMaintenanceLogsRequests(t.tenantInfo)]

\* ------------------------------------------------------------- list filters
\* Text is a sequence of characters, so that case folding, substring search,
\* splitting and number parsing are computed and not assumed.
Digit == <<"0", "1", "2", "3", "4", "5", "6", "7", "8", "9">>
Upper == <<"A", "B">>
Lower == <<"a", "b">>

\* The literal 'all' of the filter controls.
All == <<"a", "l", "l">>

\* A number, and the two values that stand where a number was expected.
Num(n) == [defined |-> TRUE, isNaN |-> FALSE, value |-> n]
NaN == [defined |-> TRUE, isNaN |-> TRUE, value |-> 0]
Undefined == [defined |-> FALSE, isNaN |-> FALSE, value |-> 0]

\* Falsy in a condition: undefined, NaN and 0.
Falsy(x) == ~x.defined \/ x.isNaN \/ x.value = 0

\* String.prototype.toLowerCase
LowerOf(ch) ==
  IF \E i \in 1..Len(Upper) : Upper[i] = ch
  THEN Lower[CHOOSE i \in 1..Len(Upper) : Upper[i] = ch]
  ELSE ch
toLowerCase(str) == [i \in 1..Len(str) |-> LowerOf(str[i])]

\* String.prototype.includes: the sought text occurs at some offset; the
\* empty text occurs in every text.
includes(str, sought) ==
  \E off \in 0..(Len(str) - Len(sought)) :
    SubSeq(str, off + 1, off + Len(sought)) = sought

\* String.prototype.split for a one-character separator: the pieces between
\* the separators, at least one.
RECURSIVE split(_, _)
split(str, sep) ==
  IF \A i \in 1..Len(str) : str[i] # sep THEN <<str>>
  ELSE LET at == CHOOSE i \in 1..Len(str) :
                   str[i] = sep /\ \A j \in 1..(i - 1) : str[j] # sep
       IN  <<SubSeq(str, 1, at - 1)>> \o split(SubSeq(str, at + 1, Len(str)), sep)

\* Number(string) on texts of digits and letters: the empty text is 0, a run
\* of digits its decimal value, anything else NaN.
RECURSIVE DecimalValue(_)
DecimalValue(str) ==
  IF str = <<>> THEN 0
  ELSE 10 * DecimalValue(SubSeq(str, 1, Len(str) - 1))
       + (CHOOSE d \in 0..9 : Digit[d + 1] = str[Len(str)])
Number(str) ==
  IF \A i \in 1..Len(str) : \E d \in 1..10 : Digit[d] = str[i]
  THEN Num(DecimalValue(str)) ELSE NaN

\* const [min, max] = priceRange.split('-').map(Number)
PriceMin(priceRange) == Number(split(priceRange, "-")[1])
PriceMax(priceRange) ==
  LET pieces == split(priceRange, "-")
  IN  IF Len(pieces) >= 2 THEN Number(pieces[2]) ELSE Undefined

\* room.price >= min && (max ? room.price <= max : true): a comparison with
\* NaN is false, and 0, NaN and undefined are falsy.
matchesPrice(price, priceRange) ==
  LET min == PriceMin(priceRange)
      max == PriceMax(priceRange)
  IN  /\ ~min.isNaN
      /\ price >= min.value
      /\ IF Falsy(max) THEN TRUE ELSE price <= max.value

\* Array.prototype.filter: the elements that pass, in their order.
RECURSIVE filter(_, _)
filter(list, keep) ==
  IF list = <<>> THEN <<>>
  ELSE (IF Head(list) \in keep THEN <<Head(list)>> ELSE <<>>)
       \o filter(Tail(list), keep)

Rows(list) == {list[i] : i \in 1..Len(list)}

\* Mutant: a ticket passes on either test.
filteredLogsEither(logs, searchTerm, statusFilter) ==
  filter(logs,
    {log \in Rows(logs) :
       \/ includes(toLowerCase(log.title), toLowerCase(searchTerm))
       \/ statusFilter = "all" \/ log.status = statusFilter})

\* MaintenanceManagement: the tickets shown.
filteredLogs(logs, searchTerm, statusFilter) ==
  filter(logs,
    {log \in Rows(logs) :
       LET matchesSearch ==
             \/ includes(toLowerCase(log.title), toLowerCase(searchTerm))
             \/ includes(toLowerCase(log.description), toLowerCase(searchTerm))
             \/ includes(toLowerCase(log.rooms.room_number), toLowerCase(searchTerm))
           matchesStatus == statusFilter = "all" \/ log.status = statusFilter
       IN  matchesSearch /\ matchesStatus})

\* Mutant: the type and the price may be matched by different rooms.
filteredPropertiesAnyRooms(props, searchTerm, locationFilter, roomTypeFilter, priceRange) ==
  filter(props,
    {property \in Rows(props) :
       /\ \/ includes(toLowerCase(property.name), toLowerCase(searchTerm))
          \/ includes(toLowerCase(property.location), toLowerCase(searchTerm))
       /\ locationFilter = All \/ property.location = locationFilter
       /\ (roomTypeFilter # "all" \/ priceRange # All) =>
            /\ \E room \in Rows(property.rooms) :
                 roomTypeFilter = "all" \/ room.room_type = roomTypeFilter
            /\ \E room \in Rows(property.rooms) :
                 priceRange = All \/ matchesPrice(room.price, priceRange)})

\* The public authority's dashboard: the properties shown.
filteredProperties(props, searchTerm, locationFilter, roomTypeFilter, priceRange) ==
  filter(props,
    {property \in Rows(props) :
       LET matchesSearch ==
             \/ includes(toLowerCase(property.name), toLowerCase(searchTerm))
             \/ includes(toLowerCase(property.location), toLowerCase(searchTerm))
           matchesLocation ==
             locationFilter = All \/ property.location = locationFilter
           hasMatchingRooms ==
             \E room \in Rows(property.rooms) :
               LET matchesRoomType ==
                     roomTypeFilter = "all" \/ room.room_type = roomTypeFilter
               IN  /\ matchesRoomType
                   /\ priceRange = All \/ matchesPrice(room.price, priceRange)
       IN  IF ~matchesSearch \/ ~matchesLocation THEN FALSE
           ELSE IF roomTypeFilter # "all" \/ priceRange # All THEN hasMatchingRooms
           ELSE TRUE})

\* The list and the filter values a list view is rendered from, and what it
\* shows; no list view is mounted at first.
NoView ==
  [component |-> "none", maintenanceLogs |-> <<>>, properties |-> <<>>,
   searchTerm |-> <<>>, statusFilter |-> "all", locationFilter |-> All,
   roomTypeFilter |-> "all", priceRange |-> All]
Render(v) ==
  [filteredLogs |-> filteredLogs(v.maintenanceLogs, v.searchTerm, v.statusFilter),
   filteredProperties |->
     filteredProperties(v.properties, v.searchTerm, v.locationFilter,
                        v.roomTypeFilter, v.priceRange)]
NotRendered == Render(NoView)

\* -------------------------------------------------------------------- Init
InitApp ==
  /\ properties = {"p1", "p2"}
  /\ rooms = [r \in {"r1", "r2"} |->
                [property_id |-> IF r = "r1" THEN "p1" ELSE "p2",
                 is_occupied |-> (r = "r1")]]
  /\ tenants = <<[room_id |-> "r1", is_active |-> TRUE, profile_id |-> "tenant1"]>>
  /\ maintenance_logs = <<>>
  /\ session = [c \in Clients |-> "admin1"]
  /\ auth = [c \in Clients |-> [user |-> "admin1", userRole |-> "admin", loading |-> FALSE]]
  /\ availableRooms = [c \in Clients |-> {}]
  /\ fetchPending = [c \in Clients |-> MountFetches]
  /\ tm = [c \in Clients |-> TmIdle]
  /\ mmRooms = [c \in Clients |-> {}]
  /\ maintenanceLogs = [c \in Clients |-> <<>>]
  /\ toast = [c \in Clients |-> "none"]
  /\ route = [c \in Clients |-> DashboardRoute]
  /\ pm = [c \in Clients |-> PmInit]
  /\ paProperties = [c \in Clients |-> {}]
  /\ td = [c \in Clients |-> TdInit]
  /\ tmTenants = [c \in Clients |-> <<>>]
  /\ steps = 0

Init ==
  /\ InitApp
  /\ view = NoView
  /\ rendered = NotRendered

\* ------------------------------------------------------- list view inputs
\* The longest list a view is given.
MaxList == 2

\* The lists of distinct rows of a set, up to MaxList long.
ListsOf(rows) ==
  UNION {{l \in [1..n -> rows] : \A i, j \in 1..n : l[i] = l[j] => i = j} :
           n \in 0..MaxList}

SampleLogs ==
  {[id |-> 1, title |-> <<"A", "b">>, description |-> <<"b">>,
    status |-> "open", rooms |-> [room_number |-> <<"1">>]],
   [id |-> 2, title |-> <<"b">>, description |-> <<"a">>,
    status |-> "resolved", rooms |-> [room_number |-> <<"2">>]],
   [id |-> 3, title |-> <<"1">>, description |-> <<>>,
    status |-> "in_progress", rooms |-> [room_number |-> <<"1", "a">>]]}

SampleProperties ==
  {[id |-> 1, name |-> <<"A", "b">>, location |-> <<"a">>,
    rooms |-> <<[room_type |-> "single", price |-> 1500],
                [room_type |-> "double", price |-> 500]>>],
   [id |-> 2, name |-> <<"b">>, location |-> <<"B">>,
    rooms |-> <<[room_type |-> "single", price |-> 500]>>],
   [id |-> 3, name |-> <<"a", "2">>, location |-> <<"a">>, rooms |-> <<>>]}

SearchTerms == {<<>>, <<"a">>, <<"A", "B">>, <<"2">>}

\* The status filter offers all, open, in_progress and resolved; the other
\* values are the ones a caller of the filter could pass besides.
StatusFilters == {"all", "open", "in_progress", "resolved", "", "closed"}
LocationFilters == {All, <<"a">>, <<"B">>}
RoomTypeFilters == {"all", "single", "double", "family", "", "suite"}

\* The decimal text of a number.
RECURSIVE DigitsOf(_)
DigitsOf(n) ==
  IF n < 10 THEN <<Digit[n + 1]>>
  ELSE DigitsOf(n \div 10) \o <<Digit[(n % 10) + 1]>>

PriceBounds == {0, 500, 1000, 1500}
ClosedRange(lo, hi) == DigitsOf(lo) \o <<"-">> \o DigitsOf(hi)
OpenRange(lo) == DigitsOf(lo) \o <<"-">>

\* The price filter offers all, 0-500, 500-1000, 1000-1500 and 1500; the
\* other values are the ones a caller of the filter could pass besides.
PriceRanges ==
  {All, <<>>, <<"a", "b">>, <<"1", "5", "0", "0">>}
    \cup {ClosedRange(lo, hi) : lo, hi \in PriceBounds}
    \cup {OpenRange(lo) : lo \in PriceBounds}

\* A list view is mounted on some list, with its filters at their initial
\* values.
InitFilters ==
  /\ InitApp
  /\ view \in
       {[NoView EXCEPT !.component = "MaintenanceManagement",
                       !.maintenanceLogs = l] : l \in ListsOf(SampleLogs)}
       \cup {[NoView EXCEPT !.component = "PublicAuthorityDashboard",
                            !.properties = l] : l \in ListsOf(SampleProperties)}
  /\ rendered = Render(view)

\* A filter control changes its value, and the view is rendered again.
SetFilter(v) ==
  /\ view' = v
  /\ rendered' = Render(v)
  /\ UNCHANGED <<td, tmTenants, route, pm, paProperties, properties, rooms,
                 tenants, maintenance_logs, session, auth, tm, availableRooms,
                 fetchPending, mmRooms, maintenanceLogs, toast>>

setSearchTerm ==
  /\ view.component # "none"
  /\ \E value \in SearchTerms : SetFilter([view EXCEPT !.searchTerm = value])

setStatusFilter ==
  /\ view.component = "MaintenanceManagement"
  /\ \E value \in StatusFilters : SetFilter([view EXCEPT !.statusFilter = value])

setLocationFilter ==
  /\ view.component = "PublicAuthorityDashboard"
  /\ \E value \in LocationFilters : SetFilter([view EXCEPT !.locationFilter = value])

setRoomTypeFilter ==
  /\ view.component = "PublicAuthorityDashboard"
  /\ \E value \in RoomTypeFilters : SetFilter([view EXCEPT !.roomTypeFilter = value])

setPriceRange ==
  /\ view.component = "PublicAuthorityDashboard"
  /\ \E value \in PriceRanges : SetFilter([view EXCEPT !.priceRange = value])

\* ------------------------------------------------------------------ session
\* The identity is process-wide state of a browser: set at sign-in, torn down
\* at sign-out.  The gateway answers getUser() and authorises requests with it.
SignIn(c, u) ==
  /\ session[c] = NoUser
  /\ session' = [session EXCEPT ![c] = u]
  /\ UNCHANGED <<view, rendered, td, tmTenants,
                 route, pm, paProperties,
                 properties, rooms, tenants, maintenance_logs, auth,
                 availableRooms, fetchPending, tm, mmRooms, maintenanceLogs, toast>>

SignOut(c) ==
  /\ session[c] # NoUser
  /\ session' = [session EXCEPT ![c] = NoUser]
  /\ UNCHANGED <<view, rendered, td, tmTenants,
                 route, pm, paProperties,
                 properties, rooms, tenants, maintenance_logs, auth,
                 availableRooms, fetchPending, tm, mmRooms, maintenanceLogs, toast>>

\* What useAuth reports while it is still reading the session of a page
\* that has just been loaded.
AuthLoading == [user |-> NoUser, userRole |-> NoRole, loading |-> TRUE]

\* What useAuth reports once it has caught up with the session.
AuthOf(u) == [user |-> u, userRole |-> Role(u), loading |-> FALSE]

\* The dashboard page is loaded afresh: every component state of the previous
\* page, a handler in flight included, is gone and useAuth starts loading.
PageLoad(c) ==
  /\ auth[c] # AuthLoading
  /\ auth' = [auth EXCEPT ![c] = AuthLoading]
  /\ route' = [route EXCEPT ![c] = DashboardRoute]
  /\ availableRooms' = [availableRooms EXCEPT ![c] = {}]
  /\ mmRooms' = [mmRooms EXCEPT ![c] = {}]
  /\ maintenanceLogs' = [maintenanceLogs EXCEPT ![c] = <<>>]
  /\ fetchPending' = [fetchPending EXCEPT ![c] = {}]
  /\ tm' = [tm EXCEPT ![c] = TmIdle]
  /\ pm' = [pm EXCEPT ![c] = PmInit]
  /\ paProperties' = [paProperties EXCEPT ![c] = {}]
  /\ td' = [td EXCEPT ![c] = TdInit]
  /\ tmTenants' = [tmTenants EXCEPT ![c] = <<>>]
  /\ toast' = [toast EXCEPT ![c] = "none"]
  /\ UNCHANGED <<view, rendered,
                 properties, rooms, tenants, maintenance_logs, session>>

\* useAuth catches up with the session and Dashboard re-renders: the
\* components of the role's dashboard mount with empty lists and their mount
\* effects issue the fetches, those of the previous one unmount and lose their
\* state, and the effect of Dashboard runs.  A signed-in user is on the
\* dashboard page.
AuthStateChange(c) ==
  /\ auth[c] # AuthOf(session[c])
  /\ auth' = [auth EXCEPT ![c] = AuthOf(session[c])]
  /\ route' = [route EXCEPT ![c] = DashboardEffect(AuthOf(session[c]), DashboardRoute)]
  /\ IF Dashboard(auth[c]) = Dashboard(AuthOf(session[c]))
     THEN /\ td' = [td EXCEPT ![c] =
                      IF "tenant" \in Dashboard(auth[c]) /\ auth[c].user # session[c]
                      THEN TenantDashboardEffect(@, session[c]) ELSE @]
          /\ UNCHANGED <<availableRooms, mmRooms, maintenanceLogs, fetchPending,
                         pm, paProperties, tmTenants>>
     ELSE /\ availableRooms' = [availableRooms EXCEPT ![c] = {}]
          /\ mmRooms' = [mmRooms EXCEPT ![c] = {}]
          /\ maintenanceLogs' = [maintenanceLogs EXCEPT ![c] = <<>>]
          /\ tmTenants' = [tmTenants EXCEPT ![c] = <<>>]
          /\ pm' = [pm EXCEPT ![c] = PmInit]
          /\ paProperties' = [paProperties EXCEPT ![c] = {}]
          /\ td' = [td EXCEPT ![c] =
                      IF "tenant" \in Dashboard(AuthOf(session[c]))
                      THEN TenantDashboardEffect(TdInit, session[c]) ELSE TdInit]
          /\ fetchPending' = [fetchPending EXCEPT
                ![c] = FetchesOf(Dashboard(AuthOf(session[c])))]
  /\ UNCHANGED <<properties, rooms, tenants, maintenance_logs, session, tm, toast,
                 view, rendered>>

\* The session of the signed-in user is refreshed and useAuth stores a new
\* user object for the same user: the effects that depend on user run again,
\* which in this application is the one of TenantDashboard.
UserRefreshed(c) ==
  /\ session[c] # NoUser
  /\ auth[c] = AuthOf(session[c])
  /\ "tenant" \in Dashboard(auth[c])
  /\ td' = [td EXCEPT ![c] = TenantDashboardEffect(@, auth[c].user)]
  /\ UNCHANGED <<view, rendered, tmTenants, route, pm, paProperties,
                 properties, rooms, tenants, maintenance_logs, session, auth, tm,
                 availableRooms, fetchPending, mmRooms, maintenanceLogs, toast>>

\* ------------------------------------------------------------------ gateway
\* insert into tenants: the row is the form plus the column defaults.
InsertTenant(ts, form) ==
  Append(ts, [room_id |-> form.room_id,
              is_active |-> DefaultIsActive,
              profile_id |-> NoUser])

\* Mutant: the update flips the room's flag.
UpdateRoomOccupiedToggled(rs, room_id) ==
  [r \in DOMAIN rs |->
     IF r = room_id THEN [rs[r] EXCEPT !.is_occupied = ~@] ELSE rs[r]]

\* update rooms set is_occupied = true where id = room_id (no row: no change)
UpdateRoomOccupied(rs, room_id) ==
  [r \in DOMAIN rs |->
     IF r = room_id THEN [rs[r] EXCEPT !.is_occupied = TRUE] ELSE rs[r]]

\* select id, ... from rooms where is_occupied = false
SelectAvailableRooms(rs) == {r \in DOMAIN rs : rs[r].is_occupied = FALSE}

\* Mutant: a fetch that was answered is issued again.
FetchRetried(pending, fetch) == pending

\* A fetch has been answered, with data or with an error: it is no longer
\* pending, and nothing issues it again.
FetchAnswered(pending, fetch) == pending \ {fetch}

\* select *, rooms (...) from tenants order by created_at desc: newest first.
SelectTenants(ts) == [i \in 1..Len(ts) |-> ts[Len(ts) + 1 - i]]

\* --------------------------------------------------------- TenantManagement
\* fetchTenants: the answer replaces the list; an error leaves it.
fetchTenants(c) ==
  /\ "tenants" \in fetchPending[c]
  /\ fetchPending' = [fetchPending EXCEPT ![c] = FetchAnswered(@, "tenants")]
  /\ \/ /\ tmTenants' = [tmTenants EXCEPT ![c] = SelectTenants(tenants)]
        /\ UNCHANGED toast
     \/ /\ toast' = [toast EXCEPT ![c] = GatewayMessage]
        /\ UNCHANGED tmTenants
  /\ UNCHANGED <<view, rendered, td, route, pm, paProperties,
                 properties, rooms, tenants, maintenance_logs, session, auth, tm,
                 availableRooms, mmRooms, maintenanceLogs>>

\* fetchAvailableRooms: the answer replaces the list; an error leaves it.
fetchAvailableRooms(c) ==
  /\ "availableRooms" \in fetchPending[c]
  /\ fetchPending' = [fetchPending EXCEPT ![c] = FetchAnswered(@, "availableRooms")]
  /\ \/ /\ availableRooms' = [availableRooms EXCEPT ![c] = SelectAvailableRooms(rooms)]
        /\ UNCHANGED toast
     \/ /\ toast' = [toast EXCEPT ![c] = GatewayMessage]
        /\ UNCHANGED availableRooms
  /\ UNCHANGED <<view, rendered, td, tmTenants,
                 route, pm, paProperties,
                 properties, rooms, tenants, maintenance_logs, session, auth, tm, mmRooms, maintenanceLogs>>

\* Mutant: only rooms the store still marks unoccupied can be submitted.
TenantFormRoomsRechecked(c) ==
  {r \in availableRooms[c] : r \in DOMAIN rooms /\ ~rooms[r].is_occupied} \cup {NoRoom}

\* The rooms the "Assign Room" Select offers, and the unselected value.
TenantFormRooms(c) == availableRooms[c] \cup {NoRoom}

\* Mutant: the notification does not look at the update's error.
CreateTenantToastIgnoringError(roomError) == Success

\* What the handler shows after the room update returned.
CreateTenantToast(roomError) ==
  IF roomError # NoError THEN roomError ELSE Success

\* Mutant: the room update is issued together with the insert.
handleCreateTenantBothWrites(c, room_id) ==
  /\ AdminMounted(c)
  /\ tm[c].pc = "idle"
  /\ \/ /\ Len(tenants) < MaxTenants
        /\ tenants' = InsertTenant(tenants, [room_id |-> room_id])
        /\ rooms' = UpdateRoomOccupied(rooms, room_id)
        /\ tm' = [tm EXCEPT ![c] = [pc |-> "update", room_id |-> room_id]]
        /\ UNCHANGED toast
     \/ /\ toast' = [toast EXCEPT ![c] = GatewayMessage]
        /\ UNCHANGED <<tenants, tm, rooms>>
  /\ UNCHANGED <<view, rendered, td, tmTenants,
                 route, pm, paProperties,
                 properties, maintenance_logs, session, auth,
                 availableRooms, fetchPending, mmRooms, maintenanceLogs>>

\* handleCreateTenant, submitted with tenantForm.room_id = room_id, up to its
\* first await: the tenant insert.
handleCreateTenantInsertOf(c, room_id) ==
  /\ AdminMounted(c)
  /\ tm[c].pc = "idle"
  /\ \/ /\ Len(tenants) < MaxTenants
        /\ tenants' = InsertTenant(tenants, [room_id |-> room_id])
        /\ tm' = [tm EXCEPT ![c] = [pc |-> "update", room_id |-> room_id]]
        /\ UNCHANGED toast
     \/ /\ toast' = [toast EXCEPT ![c] = GatewayMessage]
        /\ UNCHANGED <<tenants, tm>>
  /\ UNCHANGED <<view, rendered, td, tmTenants,
                 route, pm, paProperties,
                 properties, rooms, maintenance_logs, session, auth,
                 availableRooms, fetchPending, mmRooms, maintenanceLogs>>

\* handleCreateTenant up to its first await, for any room the form can hold.
handleCreateTenantInsert(c) ==
  \E room_id \in TenantFormRooms(c) : handleCreateTenantInsertOf(c, room_id)

\* handleCreateTenant after the insert returned without error: the room
\* update, the notification and, on success, the two refreshes.
handleCreateTenantUpdate(c) ==
  /\ tm[c].pc = "update"
  /\ \E roomError \in {NoError, GatewayMessage} :
       /\ rooms' = IF roomError = NoError
                   THEN UpdateRoomOccupied(rooms, tm[c].room_id)
                   ELSE rooms
       /\ tm' = [tm EXCEPT ![c] = TmIdle]
       /\ toast' = [toast EXCEPT ![c] = CreateTenantToast(roomError)]
       /\ fetchPending' = [fetchPending EXCEPT
             ![c] = IF roomError = NoError /\ AdminMounted(c)
                    THEN @ \cup {"tenants", "availableRooms"} ELSE @]
  /\ UNCHANGED <<view, rendered, td, tmTenants,
                 route, pm, paProperties,
                 properties, tenants, maintenance_logs, session, auth,
                 availableRooms, mmRooms, maintenanceLogs>>

handleCreateTenant(c) == handleCreateTenantInsert(c) \/ handleCreateTenantUpdate(c)

\* ---------------------------------------------------- MaintenanceManagement
\* select id, room_number, property_id, properties (id, name) from rooms:
\* the embedded property is the one property_id references.
SelectRooms(rs) ==
  {[id |-> r, property_id |-> rs[r].property_id,
    properties |-> [id |-> rs[r].property_id]] : r \in DOMAIN rs}

\* select * from maintenance_logs order by created_at desc: newest first.
\* Of each row the list keeps the id, which is what the handlers read from it.
SelectMaintenanceLogs(logs) ==
  [i \in 1..Len(logs) |-> [id |-> logs[Len(logs) + 1 - i].id]]

\* Mutant: the inserted row carries a status of its own.
InsertMaintenanceLogWithStatus(logs, row) ==
  Append(logs, [id |-> Len(logs) + 1,
                room_id |-> row.room_id,
                property_id |-> row.property_id,
                reported_by |-> row.reported_by,
                status |-> "in_progress",
                created_at |-> Len(logs) + 1])

\* insert into maintenance_logs: the id is generated by the store, the status
\* column, which no form supplies, takes its default, and created_at is the
\* store's clock, which advances with every insert.
InsertMaintenanceLog(logs, row) ==
  Append(logs, [id |-> Len(logs) + 1,
                room_id |-> row.room_id,
                property_id |-> row.property_id,
                reported_by |-> row.reported_by,
                status |-> DefaultStatus,
                created_at |-> Len(logs) + 1])

\* Mutant: a resolved ticket is terminal.
UpdateMaintenanceStatusUnlessResolved(logs, id, s) ==
  [i \in 1..Len(logs) |->
     IF logs[i].id = id /\ logs[i].status # "resolved"
     THEN [logs[i] EXCEPT !.status = s] ELSE logs[i]]

\* update maintenance_logs set status = s where id = id (no row: no change)
UpdateMaintenanceStatus(logs, id, s) ==
  [i \in 1..Len(logs) |->
     IF logs[i].id = id THEN [logs[i] EXCEPT !.status = s] ELSE logs[i]]

\* fetchRooms of MaintenanceManagement (fetchAvailableRooms in part_000).
fetchRooms(c) ==
  /\ "rooms" \in fetchPending[c]
  /\ fetchPending' = [fetchPending EXCEPT ![c] = FetchAnswered(@, "rooms")]
  /\ \/ /\ mmRooms' = [mmRooms EXCEPT ![c] = SelectRooms(rooms)]
        /\ UNCHANGED toast
     \/ /\ toast' = [toast EXCEPT ![c] = GatewayMessage]
        /\ UNCHANGED mmRooms
  /\ UNCHANGED <<view, rendered, td, tmTenants,
                 route, pm, paProperties,
                 properties, rooms, tenants, maintenance_logs, session, auth,
                 availableRooms, tm, maintenanceLogs>>

fetchMaintenanceLogs(c) ==
  /\ "maintenance_logs" \in fetchPending[c]
  /\ fetchPending' = [fetchPending EXCEPT ![c] = FetchAnswered(@, "maintenance_logs")]
  /\ \/ /\ maintenanceLogs' = [maintenanceLogs EXCEPT
                                 ![c] = SelectMaintenanceLogs(maintenance_logs)]
        /\ UNCHANGED toast
     \/ /\ toast' = [toast EXCEPT ![c] = GatewayMessage]
        /\ UNCHANGED maintenanceLogs
  /\ UNCHANGED <<view, rendered, td, tmTenants,
                 route, pm, paProperties,
                 properties, rooms, tenants, maintenance_logs, session, auth,
                 availableRooms, tm, mmRooms>>

\* The rooms the "Room" Select of the ticket form offers, and the unselected value.
MaintenanceFormRooms(c) == {row.id : row \in mmRooms[c]} \cup {NoRoom}

\* Mutant: any cached room stands for a room_id that is not in the list.
FindRoomOrAny(cached, room_id) ==
  IF \E row \in cached : row.id = room_id
  THEN {row \in cached : row.id = room_id} ELSE cached

\* rooms.find(room => room.id === maintenanceForm.room_id), as a set: empty when
\* no cached row has that id.
FindRoom(cached, room_id) == {row \in cached : row.id = room_id}

\* Mutant: the property is not taken from the resolved room.
TicketRowFixedProperty(room_id, selectedRoom, user) ==
  [room_id |-> room_id, property_id |-> "p1", reported_by |-> user]

\* Mutant: the reporter is not the identity read at the call.
TicketRowFixedReporter(room_id, selectedRoom, user) ==
  [room_id |-> room_id, property_id |-> selectedRoom.properties.id,
   reported_by |-> "authority1"]

\* The row handleCreateMaintenanceLog of MaintenanceManagement.tsx inserts.
TicketRow(room_id, selectedRoom, user) ==
  [room_id |-> room_id,
   property_id |-> selectedRoom.properties.id,
   reported_by |-> user]

\* The row handleCreateMaintenanceLog of part_000 inserts.
TicketRowPart000(room_id, selectedRoom, user) ==
  [room_id |-> room_id,
   property_id |-> selectedRoom.property_id,
   reported_by |-> user]

\* The insert of a ticket row by client c, answered with success or an error;
\* reported_by is a NOT NULL column, so a row without it is always refused.
InsertTicket(c, row, successMessage) ==
  \/ /\ row.reported_by # NoUser
     /\ Len(maintenance_logs) < MaxTickets
     /\ maintenance_logs' = InsertMaintenanceLog(maintenance_logs, row)
     /\ toast' = [toast EXCEPT ![c] = successMessage]
     /\ fetchPending' = [fetchPending EXCEPT
           ![c] = IF AdminMounted(c) THEN @ \cup {"maintenance_logs"} ELSE @]
  \/ /\ toast' = [toast EXCEPT ![c] = GatewayMessage]
     /\ UNCHANGED <<maintenance_logs, fetchPending>>

\* handleCreateMaintenanceLog of MaintenanceManagement.tsx, submitted with
\* maintenanceForm.room_id = room_id.
handleCreateMaintenanceLogOf(c, room_id) ==
  /\ AdminMounted(c)
  /\ LET user == session[c]
         found == FindRoom(mmRooms[c], room_id)
     IN  IF user = NoUser
         THEN /\ toast' = [toast EXCEPT ![c] = "Not authenticated"]
              /\ UNCHANGED <<maintenance_logs, fetchPending>>
         ELSE IF found = {}
         THEN /\ toast' = [toast EXCEPT ![c] = "Room not found"]
              /\ UNCHANGED <<maintenance_logs, fetchPending>>
         ELSE \E selectedRoom \in found :
                InsertTicket(c, TicketRow(room_id, selectedRoom, user),
                             Success)
  /\ UNCHANGED <<view, rendered, td, tmTenants,
                 route, pm, paProperties,
                 properties, rooms, tenants, session, auth, availableRooms,
                 tm, mmRooms, maintenanceLogs>>

\* handleCreateMaintenanceLog of MaintenanceManagement.tsx, for any room the
\* form can hold.
handleCreateMaintenanceLog(c) ==
  \E room_id \in MaintenanceFormRooms(c) : handleCreateMaintenanceLogOf(c, room_id)

\* handleCreateMaintenanceLog of part_000, submitted with
\* maintenanceForm.room_id = room_id: the identity is useAuth's user.
handleCreateMaintenanceLogPart000Of(c, room_id) ==
  /\ AdminMounted(c)
  /\ LET user == auth[c].user
         found == FindRoom(mmRooms[c], room_id)
     IN  IF found = {}
         THEN /\ toast' = [toast EXCEPT ![c] = "Please select a valid room"]
              /\ UNCHANGED <<maintenance_logs, fetchPending>>
         ELSE \E selectedRoom \in found :
                InsertTicket(c, TicketRowPart000(room_id, selectedRoom, user),
                             Success)
  /\ UNCHANGED <<view, rendered, td, tmTenants,
                 route, pm, paProperties,
                 properties, rooms, tenants, session, auth, availableRooms,
                 tm, mmRooms, maintenanceLogs>>

\* handleCreateMaintenanceLog of part_000, for any room the form can hold.
handleCreateMaintenanceLogPart000(c) ==
  \E room_id \in MaintenanceFormRooms(c) : handleCreateMaintenanceLogPart000Of(c, room_id)

\* updateMaintenanceStatus(id, status) (handleUpdateStatus in part_000): the
\* update is issued for whatever id and status it is given.
updateMaintenanceStatusOf(c, id, status) ==
  /\ AdminMounted(c)
  /\ \/ /\ maintenance_logs' = UpdateMaintenanceStatus(maintenance_logs, id, status)
        /\ toast' = [toast EXCEPT ![c] = Success]
        /\ fetchPending' = [fetchPending EXCEPT ![c] = @ \cup {"maintenance_logs"}]
     \/ /\ toast' = [toast EXCEPT ![c] = GatewayMessage]
        /\ UNCHANGED <<maintenance_logs, fetchPending>>
  /\ UNCHANGED <<view, rendered, td, tmTenants,
                 route, pm, paProperties,
                 properties, rooms, tenants, session, auth, availableRooms,
                 tm, mmRooms, maintenanceLogs>>

\* updateMaintenanceStatus invoked from the status Select of a ticket the list
\* shows.
updateMaintenanceStatus(c) ==
  \E i \in 1..Len(maintenanceLogs[c]), status \in maintenance_status :
    updateMaintenanceStatusOf(c, maintenanceLogs[c][i].id, status)

\* ------------------------------------------------------- PropertyManagement
\* Mutant: a new room is marked occupied.
InsertRoomOccupied(rs, id, property_id) ==
  (id :> [property_id |-> property_id, is_occupied |-> TRUE]) @@ rs

\* insert into rooms: the id is generated by the store and is_occupied, which
\* the form does not supply, takes its default.
InsertRoom(rs, id, property_id) ==
  (id :> [property_id |-> property_id, is_occupied |-> DefaultIsOccupied]) @@ rs

\* handleCreateProperty: needs an identity for created_by.
handleCreateProperty(c) ==
  /\ AdminMounted(c)
  /\ IF session[c] = NoUser
     THEN /\ toast' = [toast EXCEPT ![c] = "Not authenticated"]
          /\ UNCHANGED properties
     ELSE \/ /\ \E id \in PropertyIds \ properties : properties' = properties \cup {id}
             /\ toast' = [toast EXCEPT ![c] = Success]
          \/ /\ toast' = [toast EXCEPT ![c] = GatewayMessage]
             /\ UNCHANGED properties
  /\ UNCHANGED <<view, rendered, td, tmTenants,
                 route, pm, paProperties,
                 rooms, tenants, maintenance_logs, session, auth, availableRooms,
                 fetchPending, tm, mmRooms, maintenanceLogs>>

\* select * from rooms where property_id = propertyId
SelectRoomsOfProperty(rs, propertyId) ==
  {[id |-> r, property_id |-> rs[r].property_id, is_occupied |-> rs[r].is_occupied] :
     r \in {x \in DOMAIN rs : rs[x].property_id = propertyId}}

\* A property card is clicked: setSelectedPropertyId, and the effect on
\* selectedPropertyId issues fetchRooms for the newly selected property.
setSelectedPropertyId(c) ==
  /\ AdminMounted(c)
  /\ \E propertyId \in properties \ {pm[c].selectedPropertyId} :
       pm' = [pm EXCEPT ![c].selectedPropertyId = propertyId,
                        ![c].fetching = @ \cup {propertyId}]
  /\ UNCHANGED <<view, rendered, td, tmTenants,
                 properties, rooms, tenants, maintenance_logs, session, auth,
                 availableRooms, fetchPending, tm, mmRooms, maintenanceLogs, toast,
                 route, paProperties>>

\* fetchRooms of PropertyManagement, from the answer of its request on: the
\* rows of the property the request named replace the list, whichever
\* property is selected by now; an error leaves the list.
fetchRoomsOfProperty(c) ==
  /\ \E propertyId \in pm[c].fetching :
       \/ /\ pm' = [pm EXCEPT ![c].fetching = @ \ {propertyId},
                              ![c].rooms = SelectRoomsOfProperty(rooms, propertyId)]
          /\ UNCHANGED toast
       \/ /\ pm' = [pm EXCEPT ![c].fetching = @ \ {propertyId}]
          /\ toast' = [toast EXCEPT ![c] = GatewayMessage]
  /\ UNCHANGED <<view, rendered, td, tmTenants,
                 properties, rooms, tenants, maintenance_logs, session, auth,
                 availableRooms, fetchPending, tm, mmRooms, maintenanceLogs,
                 route, paProperties>>

\* handleCreateRoom: a room under the selected property; the dialog is there
\* only while a property is selected.  On success the room list is fetched
\* again.
handleCreateRoom(c) ==
  /\ AdminMounted(c)
  /\ pm[c].selectedPropertyId # NoProperty
  /\ \/ /\ \E id \in RoomIds \ DOMAIN rooms :
             rooms' = InsertRoom(rooms, id, pm[c].selectedPropertyId)
        /\ toast' = [toast EXCEPT ![c] = Success]
        /\ pm' = [pm EXCEPT ![c].fetching = @ \cup {pm[c].selectedPropertyId}]
     \/ /\ toast' = [toast EXCEPT ![c] = GatewayMessage]
        /\ UNCHANGED <<rooms, pm>>
  /\ UNCHANGED <<view, rendered, td, tmTenants,
                 properties, tenants, maintenance_logs, session, auth, availableRooms,
                 fetchPending, tm, mmRooms, maintenanceLogs, route, paProperties>>

\* ------------------------------------------------- PublicAuthorityDashboard
\* The store as one value, for the queries that embed one table in another.
Db ==
  [properties |-> properties, rooms |-> rooms, tenants |-> tenants,
   maintenance_logs |-> maintenance_logs]

\* Mutant: the query embeds the tenants of each room as well.
SelectPropertiesWithTenants(db) ==
  {[id |-> p,
    rooms |-> {[id |-> r, property_id |-> db.rooms[r].property_id,
                is_occupied |-> db.rooms[r].is_occupied,
                tenants |-> {db.tenants[i] : i \in {j \in 1..Len(db.tenants) :
                                                      db.tenants[j].room_id = r}}] :
                 r \in {x \in DOMAIN db.rooms : db.rooms[x].property_id = p}}] :
     p \in db.properties}

\* select *, rooms (*) from properties: each property with its room rows.
SelectPropertiesWithRooms(db) ==
  {[id |-> p,
    rooms |-> {[id |-> r, property_id |-> db.rooms[r].property_id,
                is_occupied |-> db.rooms[r].is_occupied] :
                 r \in {x \in DOMAIN db.rooms : db.rooms[x].property_id = p}}] :
     p \in db.properties}

\* fetchProperties of PublicAuthorityDashboard: the answer replaces the list;
\* an error is logged and leaves it.
fetchProperties(c) ==
  /\ "properties" \in fetchPending[c]
  /\ fetchPending' = [fetchPending EXCEPT ![c] = FetchAnswered(@, "properties")]
  /\ \/ paProperties' = [paProperties EXCEPT ![c] = SelectPropertiesWithRooms(Db)]
     \/ UNCHANGED paProperties
  /\ UNCHANGED <<view, rendered, td, tmTenants,
                 properties, rooms, tenants, maintenance_logs, session, auth,
                 availableRooms, tm, mmRooms, maintenanceLogs, toast, route, pm>>

\* ------------------------------------------------- TenantDashboard fetches
\* select *, rooms (...) from tenants where profile_id = user and is_active,
\* .single(): the row when exactly one matches, as a set; none or several make
\* the error PGRST116, which fetchTenantInfo passes over, and data is null.
SelectTenantInfo(ts, user) ==
  LET matching == {i \in 1..Len(ts) : ts[i].profile_id = user /\ ts[i].is_active}
  IN  IF Cardinality(matching) = 1 THEN {ts[i] : i \in matching} ELSE {}

\* The rows of a set, ordered by created_at descending.
RECURSIVE OrderByCreatedAtDesc(_)
OrderByCreatedAtDesc(rows) ==
  IF rows = {} THEN <<>>
  ELSE LET newest == CHOOSE x \in rows : \A y \in rows : y.created_at <= x.created_at
       IN  <<newest>> \o OrderByCreatedAtDesc(rows \ {newest})

\* Mutant: the list is not restricted to the room.
SelectMaintenanceLogsOfAnyRoom(logs, room_id) ==
  OrderByCreatedAtDesc({logs[i] : i \in 1..Len(logs)})

\* select * from maintenance_logs where room_id = room_id
\* order by created_at desc
SelectMaintenanceLogsOfRoom(logs, room_id) ==
  OrderByCreatedAtDesc({logs[i] : i \in {j \in 1..Len(logs) : logs[j].room_id = room_id}})

\* fetchTenantInfo, from the answer of its request on: the tenancy of the
\* user the request named replaces tenantInfo; another error leaves it.
fetchTenantInfo(c) ==
  /\ \E req \in {r \in td[c].fetching : r.fetch = "tenantInfo"} :
       \/ td' = [td EXCEPT ![c].fetching = @ \ {req},
                           ![c].tenantInfo = SelectTenantInfo(tenants, req.profile_id)]
       \/ td' = [td EXCEPT ![c].fetching = @ \ {req}]
  /\ UNCHANGED <<view, rendered, tmTenants, route, pm, paProperties,
                 properties, rooms, tenants, maintenance_logs, session, auth, tm,
                 availableRooms, fetchPending, mmRooms, maintenanceLogs, toast>>

\* fetchMaintenanceLogs of TenantDashboard, from the answer of its request
\* on: the tickets of the room the request named replace the list; an error
\* leaves it.
fetchMaintenanceLogsOfRoom(c) ==
  /\ \E req \in {r \in td[c].fetching : r.fetch = "maintenance_logs"} :
       \/ td' = [td EXCEPT ![c].fetching = @ \ {req},
                           ![c].maintenanceLogs =
                              SelectMaintenanceLogsOfRoom(maintenance_logs, req.room_id)]
       \/ td' = [td EXCEPT ![c].fetching = @ \ {req}]
  /\ UNCHANGED <<view, rendered, tmTenants, route, pm, paProperties,
                 properties, rooms, tenants, maintenance_logs, session, auth, tm,
                 availableRooms, fetchPending, mmRooms, maintenanceLogs, toast>>

\* ------------------------------------------------------------ specifications
\* A step of a length-bounded run, and a step of an unbounded one.
Counted == steps < MaxSteps /\ steps' = steps + 1
Uncounted == UNCHANGED steps

\* One browser running every operation, in runs of at most MaxSteps steps.
Next ==
  \E c \in {"c1"} :
    \/ \E u \in Users : SignIn(c, u) /\ Counted
    \/ SignOut(c) /\ Counted
    \/ AuthStateChange(c) /\ Counted
    \/ fetchTenants(c) /\ Counted
    \/ fetchAvailableRooms(c) /\ Counted
    \/ handleCreateTenantInsert(c) /\ Counted
    \/ handleCreateTenantUpdate(c) /\ Counted
    \/ fetchRooms(c) /\ Counted
    \/ fetchMaintenanceLogs(c) /\ Counted
    \/ handleCreateMaintenanceLog(c) /\ Counted
    \/ handleCreateMaintenanceLogPart000(c) /\ Counted
    \/ updateMaintenanceStatus(c) /\ Counted
    \/ handleCreateProperty(c) /\ Counted
    \/ handleCreateRoom(c) /\ Counted
    \/ PageLoad(c) /\ Counted
    \/ setSelectedPropertyId(c) /\ Counted
    \/ fetchRoomsOfProperty(c) /\ Counted
    \/ fetchProperties(c) /\ Counted

Spec == Init /\ [][Next]_vars

\* Several admin browsers assigning tenants concurrently.
NextTenants ==
  \E c \in Clients :
    \/ fetchTenants(c) /\ Uncounted
    \/ fetchAvailableRooms(c) /\ Uncounted
    \/ handleCreateTenantInsert(c) /\ Uncounted
    \/ handleCreateTenantUpdate(c) /\ Uncounted

SpecTenants == Init /\ [][NextTenants]_vars

\* One browser, whose session may change, working on maintenance tickets.
NextTickets ==
  \E c \in {"c1"} :
    \/ \E u \in Users : SignIn(c, u) /\ Uncounted
    \/ SignOut(c) /\ Uncounted
    \/ AuthStateChange(c) /\ Uncounted
    \/ fetchRooms(c) /\ Uncounted
    \/ fetchMaintenanceLogs(c) /\ Uncounted
    \/ handleCreateMaintenanceLog(c) /\ Uncounted
    \/ handleCreateMaintenanceLogPart000(c) /\ Uncounted
    \/ updateMaintenanceStatus(c) /\ Uncounted

SpecTickets == Init /\ [][NextTickets]_vars

\* One admin browser working on properties and their rooms.
NextProperties ==
  \E c \in {"c1"} :
    \/ setSelectedPropertyId(c) /\ Uncounted
    \/ fetchRoomsOfProperty(c) /\ Uncounted
    \/ handleCreateProperty(c) /\ Uncounted
    \/ handleCreateRoom(c) /\ Uncounted

SpecProperties == Init /\ [][NextProperties]_vars

\* An admin browser assigning tenants next to a browser whose page is loaded
\* and whose session changes.
NextViews ==
  \/ \E c \in {"c1"} :
       \/ fetchAvailableRooms(c) /\ Uncounted
       \/ handleCreateTenantInsert(c) /\ Uncounted
       \/ handleCreateTenantUpdate(c) /\ Uncounted
  \/ \E c \in {"c2"} :
       \/ \E u \in Users : SignIn(c, u) /\ Uncounted
       \/ SignOut(c) /\ Uncounted
       \/ PageLoad(c) /\ Uncounted
       \/ AuthStateChange(c) /\ Uncounted
       \/ fetchProperties(c) /\ Uncounted

SpecViews == Init /\ [][NextViews]_vars

\* A tenant's browser, whose session changes, next to an admin browser that
\* creates tickets.
NextTenantView ==
  \/ \E c \in {"c1"} :
       \/ fetchRooms(c) /\ Uncounted
       \/ handleCreateMaintenanceLog(c) /\ Uncounted
  \/ \E c \in {"c2"} :
       \/ \E u \in TenantUsers : SignIn(c, u) /\ Uncounted
       \/ SignOut(c) /\ Uncounted
       \/ AuthStateChange(c) /\ Uncounted
       \/ UserRefreshed(c) /\ Uncounted
       \/ fetchTenantInfo(c) /\ Uncounted
       \/ fetchMaintenanceLogsOfRoom(c) /\ Uncounted

SpecTenantView == Init /\ [][NextTenantView]_vars

\* The answers of the tenant dashboard's requests when the gateway succeeds.
TenantInfoStored(c) ==
  \E req \in td[c].fetching \ td'[c].fetching :
    td'[c].tenantInfo = SelectTenantInfo(tenants, req.profile_id)
TenantLogsStored(c) ==
  \E req \in td[c].fetching \ td'[c].fetching :
    td'[c].maintenanceLogs = SelectMaintenanceLogsOfRoom(maintenance_logs, req.room_id)

\* No tenant is signed in on the tenant's browser, and none is shown there.
NoTenantSignedIn ==
  session["c2"] \notin TenantUsers /\ auth["c2"].user \notin TenantUsers

\* The same two browsers with every gateway call succeeding.  A request that
\* was issued is answered and a session change reaches useAuth; nothing
\* obliges a user to sign in or out, a session to be refreshed or an admin to
\* create a ticket.  The admin works while no tenant is signed in, so that
\* what a tenant's list should show does not change under it.
NextTenantViewFair ==
  \/ \E c \in {"c1"} :
       \/ /\ NoTenantSignedIn
          /\ fetchRooms(c) /\ mmRooms'[c] = SelectRooms(rooms) /\ UNCHANGED toast
          /\ Uncounted
       \/ /\ NoTenantSignedIn
          /\ handleCreateMaintenanceLog(c) /\ maintenance_logs' # maintenance_logs
          /\ Uncounted
  \/ \E c \in {"c2"} :
       \/ \E u \in TenantUsers : SignIn(c, u) /\ Uncounted
       \/ SignOut(c) /\ Uncounted
       \/ AuthStateChange(c) /\ Uncounted
       \/ UserRefreshed(c) /\ Uncounted
       \/ fetchTenantInfo(c) /\ TenantInfoStored(c) /\ Uncounted
       \/ fetchMaintenanceLogsOfRoom(c) /\ TenantLogsStored(c) /\ Uncounted

SpecTenantViewFair ==
  /\ Init
  /\ [][NextTenantViewFair]_vars
  /\ WF_vars(AuthStateChange("c2") /\ Uncounted)
  /\ WF_vars(fetchTenantInfo("c2") /\ TenantInfoStored("c2") /\ Uncounted)
  /\ WF_vars(fetchMaintenanceLogsOfRoom("c2") /\ TenantLogsStored("c2") /\ Uncounted)

\* A list view whose filter controls are worked.
NextFilters ==
  \/ setSearchTerm /\ Uncounted
  \/ setStatusFilter /\ Uncounted
  \/ setLocationFilter /\ Uncounted
  \/ setRoomTypeFilter /\ Uncounted
  \/ setPriceRange /\ Uncounted

SpecFilters == InitFilters /\ [][NextFilters]_vars

\* ---------------------------------------------------------------- claims
\* The tenant rows that are active and reference room r.
ActiveTenantsOf(r) ==
  {i \in 1..Len(tenants) : tenants[i].room_id = r /\ tenants[i].is_active}

\* No handleCreateTenant is between its insert and its update.
NoCreateTenantInFlight == \A c \in Clients : tm[c].pc = "idle"

\* C1: whenever every createTenant has completed (in success or in error),
\* each room is marked occupied if and only if an active tenant row references it.
C1_OccupiedIffActiveTenant ==
  NoCreateTenantInFlight =>
    \A r \in DOMAIN rooms : rooms[r].is_occupied <=> ActiveTenantsOf(r) # {}

\* C2: in every reachable state no room is referenced by more than one
\* active tenant row.
C2_AtMostOneActiveTenant ==
  \A r \in DOMAIN rooms : Cardinality(ActiveTenantsOf(r)) <= 1

\* C3: a createTenant naming a room the store marks occupied at the time of
\* the call inserts no tenant row: no step appends a tenant row for a room
\* whose is_occupied is true when the step is taken.
C3_OccupiedRoomInsertsNothing ==
  [][Len(tenants') > Len(tenants) =>
       LET r == tenants'[Len(tenants')].room_id
       IN  r \in DOMAIN rooms => ~rooms[r].is_occupied]_vars

\* C4: a createTenant that returns from its room update either reports success
\* with both writes applied (the tenant row is there and the room is marked
\* occupied), or reports the gateway's message, writes nothing more, issues no
\* refresh and leaves the store as the failed update found it: the tenant row
\* stays and is_occupied keeps its value, false if it was false.  Success is
\* reported by no other step of createTenant.
C4_SuccessOnlyWhenBothWritesSucceeded ==
  [][\A c \in Clients :
       /\ (tm[c].pc = "update" /\ tm'[c].pc = "idle") =>
            LET r == tm[c].room_id
            IN  \/ /\ toast'[c] = Success
                   /\ r \in DOMAIN rooms => rooms'[r].is_occupied
                   /\ tenants' = tenants
                \/ /\ toast'[c] = GatewayMessage
                   /\ store' = store
                   /\ fetchPending' = fetchPending
       /\ (toast'[c] = Success /\ toast[c] # Success) => tm[c].pc = "update"]_vars

\* C4 witness: a createTenant ended with the gateway's message and left an
\* active tenant row on a room that is still marked unoccupied.
C4_Witness ==
  /\ NoCreateTenantInFlight
  /\ \E c \in Clients : toast[c] = GatewayMessage
  /\ \E r \in DOMAIN rooms : ~rooms[r].is_occupied /\ ActiveTenantsOf(r) # {}

\* C5: the availability check is the client's cached list only: for every room
\* in a client's availableRooms the tenant insert is enabled whatever the
\* store's is_occupied says by now, so two clients holding the same unoccupied
\* room in their lists can both insert a tenant row for it.
C5_InsertIgnoresStoreOccupancy ==
  \A c \in Clients : \A r \in availableRooms[c] :
    (tm[c].pc = "idle" /\ Len(tenants) < MaxTenants) =>
      ENABLED (handleCreateTenantInsert(c)
               /\ Len(tenants') > Len(tenants)
               /\ tenants'[Len(tenants')].room_id = r)

\* C5 witness: two createTenant calls in flight at once for the same room,
\* both having inserted their tenant row.
C5_Witness ==
  \E r \in DOMAIN rooms :
    /\ \A c \in Clients : tm[c].pc = "update" /\ tm[c].room_id = r
    /\ Cardinality(ActiveTenantsOf(r)) >= 2

\* The rooms of the active tenancies of identity u.
OwnRooms(u) ==
  {tenants[i].room_id : i \in {j \in 1..Len(tenants) :
                                 tenants[j].profile_id = u /\ tenants[j].is_active}}

\* C6: every ticket's property_id is the property_id of the room its room_id
\* names.
C6_TicketPropertyIsRoomProperty ==
  \A i \in 1..Len(maintenance_logs) :
    /\ maintenance_logs[i].room_id \in DOMAIN rooms
    /\ maintenance_logs[i].property_id = rooms[maintenance_logs[i].room_id].property_id

\* C6 witness: tickets on rooms of two different properties, one of them moved
\* on by updateTicketStatus.
C6_Witness ==
  \E i, j \in 1..Len(maintenance_logs) :
    /\ maintenance_logs[i].property_id # maintenance_logs[j].property_id
    /\ maintenance_logs[i].status # "open"

\* C7: every ticket reported by a tenant-role identity names a room of that
\* identity's own active tenancy.
C7_TenantReportsOwnRoomOnly ==
  \A i \in 1..Len(maintenance_logs) :
    Role(maintenance_logs[i].reported_by) = "tenant" =>
      maintenance_logs[i].room_id \in OwnRooms(maintenance_logs[i].reported_by)

\* C8: createTenant and updateTicketStatus invoked under an identity whose role
\* is tenant or public_authority end in NotAuthorized and write nothing to the
\* store.
C8_NonAdminIsRefused ==
  [][\A c \in Clients :
       (/\ Role(session[c]) \in {"tenant", "public_authority"}
        /\ (handleCreateTenantInsert(c) \/ updateMaintenanceStatus(c)))
       => (store' = store /\ toast'[c] = "NotAuthorized")]_vars

C10_StatusChangesOnlyByUpdate ==
  [][/\ Len(maintenance_logs') >= Len(maintenance_logs)
     /\ Len(maintenance_logs') > Len(maintenance_logs) =>
          maintenance_logs'[Len(maintenance_logs')].status = "open"
     /\ (\E i \in 1..Len(maintenance_logs) :
           maintenance_logs'[i].status # maintenance_logs[i].status)
        => \E c \in Clients : updateMaintenanceStatus(c)
    ]_vars

\* C10 witness: a ticket that is no longer open, next to a newer ticket and a
\* tenant created through the form.
C10_Witness ==
  /\ Len(maintenance_logs) >= 2
  /\ maintenance_logs[1].status # "open"
  /\ Len(tenants) >= 2

\* The ids the store can have given to tickets.
TicketIds == 1..MaxTickets

\* The stored status of the ticket with this id, as a set: empty when no row
\* has the id.
StatusOf(id) ==
  {maintenance_logs[k].status : k \in {j \in 1..Len(maintenance_logs) :
                                         maintenance_logs[j].id = id}}

\* C11: for every ticket an admin's list shows, whatever its stored status,
\* and for every target status t (its current status and open after resolved
\* included), the call updateTicketStatus(id, t) can succeed, and when it does
\* the ticket's stored status is t and no other ticket has changed; no status
\* is terminal.
C11_EveryTransitionPermitted ==
  \A c \in Clients : AdminMounted(c) =>
    \A i \in 1..Len(maintenanceLogs[c]), t \in maintenance_status :
      LET id == maintenanceLogs[c][i].id
      IN  /\ StatusOf(id) # {}
          /\ ENABLED (/\ updateMaintenanceStatusOf(c, id, t)
                      /\ toast'[c] = Success
                      /\ Len(maintenance_logs') = Len(maintenance_logs)
                      /\ \A k \in 1..Len(maintenance_logs) :
                           IF maintenance_logs[k].id = id
                           THEN maintenance_logs'[k] =
                                  [maintenance_logs[k] EXCEPT !.status = t]
                           ELSE maintenance_logs'[k] = maintenance_logs[k])

\* C11 witness: an admin's list shows a ticket that is stored as resolved, next
\* to one that is in progress.
C11_Witness ==
  \E c \in Clients :
    /\ AdminMounted(c)
    /\ \E i, j \in 1..Len(maintenanceLogs[c]) :
         /\ StatusOf(maintenanceLogs[c][i].id) = {"resolved"}
         /\ StatusOf(maintenanceLogs[c][j].id) = {"in_progress"}

\* C12: a call updateTicketStatus(id, t) for a ticket whose stored status is
\* already t, as the second of two calls in a row is, issues no update to the
\* store: no step of the handler has the store apply an update for such a
\* pair and answer it without error.
C12_RepeatedUpdateIssuesNoWrite ==
  [][\A c \in Clients, id \in TicketIds, t \in maintenance_status :
       StatusOf(id) = {t} =>
         ~(updateMaintenanceStatusOf(c, id, t) /\ toast'[c] = Success)]_vars

\* C13: updateTicketStatus called with an id that matches no ticket row never
\* ends in the success outcome.
C13_UnknownTicketIsNotFound ==
  \A c \in Clients, id \in TicketIds, t \in maintenance_status :
    (AdminMounted(c) /\ StatusOf(id) = {}) =>
      ~ENABLED (updateMaintenanceStatusOf(c, id, t) /\ toast'[c] = Success)

\* C14: a createMaintenanceTicket whose room_id is not the id of a room the
\* handler knows (the unselected room_id included) ends in the room-not-found
\* error of its handler, inserts no ticket, issues no refresh and leaves the
\* ticket list as it was; in MaintenanceManagement.tsx the check comes after
\* the identity check, so a call without identity ends in that error instead,
\* also before any write.
C14_UnknownRoomInsertsNothing ==
  [][\A c \in Clients, room_id \in RoomIds \cup {NoRoom} :
       room_id \notin {row.id : row \in mmRooms[c]} =>
         /\ handleCreateMaintenanceLogOf(c, room_id) =>
              /\ toast'[c] = IF session[c] = NoUser THEN "Not authenticated"
                             ELSE "Room not found"
              /\ maintenance_logs' = maintenance_logs
              /\ maintenanceLogs' = maintenanceLogs
              /\ fetchPending' = fetchPending
         /\ handleCreateMaintenanceLogPart000Of(c, room_id) =>
              /\ toast'[c] = "Please select a valid room"
              /\ maintenance_logs' = maintenance_logs
              /\ maintenanceLogs' = maintenanceLogs
              /\ fetchPending' = fetchPending]_vars

\* C14 witness: with rooms listed and a ticket already there, a submission
\* ended in the room-not-found error.
C14_Witness ==
  \E c \in Clients :
    /\ toast[c] = "Room not found"
    /\ mmRooms[c] # {}
    /\ Len(maintenance_logs) = 1
    /\ Len(maintenanceLogs[c]) = 1

\* C15: a createTenant submitted with no room selected fails with a
\* ValidationError before any write: the tenant insert is not issued.
C15_MissingRoomIsValidationError ==
  [][\A c \in Clients :
       handleCreateTenantInsertOf(c, NoRoom) =>
         /\ store' = store
         /\ tm' = tm
         /\ toast'[c] = "ValidationError"]_vars

\* C16: is_occupied is written only by tenant assignment, and only to true:
\* a step that changes a room's is_occupied is the room update of a
\* createTenant naming that room, no operation removes a room, and a room
\* created by handleCreateRoom is unoccupied, so it stays unoccupied until a
\* createTenant names it.  The code has no move-out operation.
C16_OccupancyWrittenOnlyByAssignment ==
  [][/\ \A r \in DOMAIN rooms :
          /\ r \in DOMAIN rooms'
          /\ rooms'[r].property_id = rooms[r].property_id
          /\ rooms'[r].is_occupied # rooms[r].is_occupied =>
               /\ rooms'[r].is_occupied
               /\ \E c \in Clients : handleCreateTenantUpdate(c) /\ tm[c].room_id = r
     /\ \A r \in DOMAIN rooms' \ DOMAIN rooms :
          /\ ~rooms'[r].is_occupied
          /\ \E c \in Clients : handleCreateRoom(c)
    ]_vars

\* C16 witness: a room created through the form has been occupied by a
\* createTenant while an older room is still unoccupied.
C16_Witness ==
  /\ "r3" \in DOMAIN rooms
  /\ rooms["r3"].is_occupied
  /\ ~rooms["r2"].is_occupied
  /\ ActiveTenantsOf("r3") # {}

\* C17: the response of a superseded fetchRooms is discarded: when the last
\* of the responses in flight arrives and changes the displayed room list, the
\* list it leaves holds rooms of the selected property only, in whichever
\* order the responses arrived.
C17_SupersededResponseDiscarded ==
  [][\A c \in Clients :
       (/\ fetchRoomsOfProperty(c)
        /\ pm'[c].fetching = {}
        /\ pm'[c].rooms # pm[c].rooms) =>
         \A row \in pm'[c].rooms : row.property_id = pm[c].selectedPropertyId]_vars

\* C18: whenever useAuth reports a signed-in user and loading finished,
\* Dashboard renders exactly one dashboard, that of the user's role.
C18_ExactlyOneDashboard ==
  \A c \in Clients :
    (auth[c].user # NoUser /\ ~auth[c].loading) =>
      /\ Cardinality(Dashboard(auth[c])) = 1
      /\ Dashboard(auth[c]) = {Role(auth[c].user)}

\* C18 witness: one browser shows the admin dashboard while another, whose
\* session changed, shows the public-authority one.
C18_Witness ==
  /\ Dashboard(auth["c1"]) = {"admin"}
  /\ Dashboard(auth["c2"]) = {"public_authority"}
  /\ session["c2"] = "authority1"

\* C19: while useAuth is loading or reports no user, Dashboard renders no role
\* dashboard, and once loading has finished with no user the browser has been
\* sent to the sign-in route.
C19_NoDashboardWithoutUser ==
  \A c \in Clients :
    /\ (auth[c].loading \/ auth[c].user = NoUser) => Dashboard(auth[c]) = {}
    /\ (~auth[c].loading /\ auth[c].user = NoUser) => route[c] = AuthRoute

\* C19 witness: useAuth has finished loading and reports no user, the browser
\* is on the sign-in route and nothing of a dashboard is left.
C19_Witness ==
  \E c \in Clients :
    /\ ~auth[c].loading
    /\ auth[c].user = NoUser
    /\ route[c] = AuthRoute
    /\ toast[c] = "none"
    /\ fetchPending[c] = {}

\* Tenant tables that differ from one another in every field of their rows.
OtherTenantTables ==
  {<<>>,
   <<[room_id |-> "r2", is_active |-> TRUE, profile_id |-> NoUser]>>,
   <<[room_id |-> "r1", is_active |-> FALSE, profile_id |-> "tenant1"],
     [room_id |-> "r1", is_active |-> TRUE, profile_id |-> "admin1"]>>}

\* C20: what the public-authority view fetches is the same for every tenants
\* table next to the same properties and rooms, and its rows hold property and
\* room fields only: a fetch leaves the list or sets it to a value that does
\* not change when the tenants table is replaced.
C20_PublicAuthoritySeesNoTenantData ==
  [][\A c \in Clients :
       fetchProperties(c) =>
         /\ \A ts \in OtherTenantTables :
              \/ paProperties'[c] = paProperties[c]
              \/ paProperties'[c] = SelectPropertiesWithRooms([Db EXCEPT !.tenants = ts])
         /\ \A property \in paProperties'[c] :
              /\ DOMAIN property = {"id", "rooms"}
              /\ \A room \in property.rooms :
                   DOMAIN room = {"id", "property_id", "is_occupied"}]_vars

\* C20 witness: the public-authority view holds the fetched properties while
\* the tenants table has grown since the page was loaded.
C20_Witness ==
  /\ Dashboard(auth["c2"]) = {"public_authority"}
  /\ paProperties["c2"] # {}
  /\ \E property \in paProperties["c2"] : \E room \in property.rooms : room.is_occupied
  /\ Len(tenants) >= 2


\* Two characters that are the same letter, whatever their case.
SameLetter(a, b) ==
  a = b \/ \E i \in 1..Len(Upper) : {a, b} = {Upper[i], Lower[i]}

\* The sought text occurs in a text at some offset, letter by letter.
OccursIgnoringCase(sought, str) ==
  \E off \in 0..(Len(str) - Len(sought)) :
    \A j \in 1..Len(sought) : SameLetter(str[off + j], sought[j])

\* The order-preserving selection of the rows at the positions kept.
IsSelection(out, list, kept) ==
  /\ Len(out) = Cardinality(kept)
  /\ \A k \in 1..Len(out) :
       \E i \in kept : out[k] = list[i] /\ Cardinality({j \in kept : j < i}) = k - 1

PropertyView == view.component = "PublicAuthorityDashboard"
TicketView == view.component = "MaintenanceManagement"

\* C21: when the room type filter or the price filter is active, the
\* properties shown are exactly those that pass the text and location tests
\* and have one room meeting every active room criterion at once; a property
\* without rooms is not shown, and a shown property keeps all its rooms.
C21_OneRoomMeetsAllCriteria ==
  (PropertyView /\ (view.roomTypeFilter # "all" \/ view.priceRange # All)) =>
    /\ \A i \in 1..Len(view.properties) :
         LET property == view.properties[i]
         IN  (property \in Rows(rendered.filteredProperties)) <=>
               /\ \/ OccursIgnoringCase(view.searchTerm, property.name)
                  \/ OccursIgnoringCase(view.searchTerm, property.location)
               /\ view.locationFilter = All \/ property.location = view.locationFilter
               /\ \E k \in 1..Len(property.rooms) :
                    /\ view.roomTypeFilter # "all" =>
                         property.rooms[k].room_type = view.roomTypeFilter
                    /\ view.priceRange # All =>
                         matchesPrice(property.rooms[k].price, view.priceRange)
    /\ \A shown \in Rows(rendered.filteredProperties) :
         shown.rooms # <<>> /\ shown \in Rows(view.properties)

\* Both room criteria are active; the property whose rooms meet them
\* separately is hidden and the one with a room meeting both is shown.
C21_Witness ==
  /\ PropertyView
  /\ view.roomTypeFilter = "single"
  /\ view.priceRange = ClosedRange(0, 500)
  /\ {p.id : p \in Rows(view.properties)} = {1, 2}
  /\ {p.id : p \in Rows(rendered.filteredProperties)} = {2}
  /\ \A p \in Rows(rendered.filteredProperties) : Len(p.rooms) = 1

\* C22: with only the price filter active, a range lo-hi shows exactly the
\* properties with a room priced from lo to hi inclusive, and an open range
\* lo- (or the offered bare lower bound) exactly those with a room priced at
\* lo or more, for every lo and hi of the bounded set.
C22_RangeIsInclusiveInterval ==
  (PropertyView /\ view.searchTerm = <<>> /\ view.locationFilter = All
     /\ view.roomTypeFilter = "all") =>
    \A lo, hi \in PriceBounds :
      \A i \in 1..Len(view.properties) :
        LET property == view.properties[i]
            shown == property \in Rows(rendered.filteredProperties)
        IN  /\ view.priceRange = ClosedRange(lo, hi) =>
                 (shown <=> \E k \in 1..Len(property.rooms) :
                              lo <= property.rooms[k].price
                              /\ property.rooms[k].price <= hi)
            /\ view.priceRange \in {OpenRange(lo), DigitsOf(lo)} =>
                 (shown <=> \E k \in 1..Len(property.rooms) :
                              property.rooms[k].price >= lo)

\* C23: a status filter or room type filter outside the offered values, a
\* price range that is empty or does not parse to numbers, and an empty
\* search term each show what the corresponding 'all' value shows.
C23_UnrecognizedValueIsNoRestriction ==
  /\ (TicketView /\ view.statusFilter \notin {"all", "open", "in_progress", "resolved"}) =>
       rendered = Render([view EXCEPT !.statusFilter = "all"])
  /\ (PropertyView /\ view.roomTypeFilter \notin {"all", "single", "double", "family"}) =>
       rendered = Render([view EXCEPT !.roomTypeFilter = "all"])
  /\ (PropertyView /\ (view.priceRange = <<>> \/ PriceMin(view.priceRange).isNaN)) =>
       rendered = Render([view EXCEPT !.priceRange = All])
  /\ (view.searchTerm = <<>> /\ view.statusFilter = "all" /\ view.locationFilter = All
        /\ view.roomTypeFilter = "all" /\ view.priceRange = All) =>
       /\ rendered.filteredLogs = view.maintenanceLogs
       /\ rendered.filteredProperties = view.properties

\* C24: the tickets shown are, in the order of the list, exactly those where
\* the search term occurs, whatever the case, in the title, the description
\* or the room number, and the status filter is 'all' or the ticket's status;
\* with 'all' and an empty search term the whole list is shown.
C24_TicketFilterIsOrderedSelection ==
  TicketView =>
    /\ IsSelection(rendered.filteredLogs, view.maintenanceLogs,
         {i \in 1..Len(view.maintenanceLogs) :
            LET log == view.maintenanceLogs[i]
            IN  /\ \/ OccursIgnoringCase(view.searchTerm, log.title)
                   \/ OccursIgnoringCase(view.searchTerm, log.description)
                   \/ OccursIgnoringCase(view.searchTerm, log.rooms.room_number)
                /\ view.statusFilter = "all" \/ log.status = view.statusFilter})
    /\ (view.statusFilter = "all" /\ view.searchTerm = <<>>) =>
         rendered.filteredLogs = view.maintenanceLogs

\* A term in another case than the title selects one ticket of two, whose
\* status is the filtered one.
C24_Witness ==
  /\ TicketView
  /\ view.searchTerm = <<"A", "B">>
  /\ view.statusFilter = "open"
  /\ Len(view.maintenanceLogs) = 2
  /\ Len(rendered.filteredLogs) = 1
  /\ rendered.filteredLogs[1].title = <<"A", "b">>

\* C25: the list a tenant's dashboard stores from a fetch for a room holds
\* exactly the tickets of that room, each once, newest first: of two adjacent
\* entries the earlier one's created_at is not older than the later one's.
C25_RoomTicketsNewestFirst ==
  [][\A c \in Clients :
       (fetchMaintenanceLogsOfRoom(c)
          /\ td'[c].maintenanceLogs # td[c].maintenanceLogs) =>
         LET list == td'[c].maintenanceLogs
         IN  /\ \E req \in td[c].fetching \ td'[c].fetching :
                  Rows(list) = {maintenance_logs[i] :
                                  i \in {j \in 1..Len(maintenance_logs) :
                                           maintenance_logs[j].room_id = req.room_id}}
             /\ Cardinality(Rows(list)) = Len(list)
             /\ \A k \in 1..(Len(list) - 1) :
                  list[k].created_at >= list[k + 1].created_at]_vars

\* The tenant's list shows the two tickets of one room, the newer one first,
\* and nothing is being fetched.
C25_Witness ==
  /\ Len(td["c2"].maintenanceLogs) = 2
  /\ td["c2"].maintenanceLogs[1].created_at > td["c2"].maintenanceLogs[2].created_at
  /\ td["c2"].maintenanceLogs[1].room_id = td["c2"].maintenanceLogs[2].room_id
  /\ td["c2"].fetching = {}

\* C26: within one createTenant the tenant insert comes first and the room
\* update only after the insert returned success: the step that inserts adds
\* one active row for the submitted room and writes no room; a failed insert
\* ends the call with the store unchanged; and a room is written only by a
\* call whose insert succeeded before.
C26_InsertThenUpdate ==
  [][/\ \A c \in Clients :
          /\ (tm[c].pc = "idle" /\ tm'[c].pc = "update") =>
               /\ Len(tenants') = Len(tenants) + 1
               /\ SubSeq(tenants', 1, Len(tenants)) = tenants
               /\ tenants'[Len(tenants')].is_active
               /\ tenants'[Len(tenants')].room_id = tm'[c].room_id
               /\ rooms' = rooms
          /\ (handleCreateTenantInsert(c) /\ tm'[c].pc = "idle") =>
               /\ store' = store
               /\ toast'[c] = GatewayMessage
     /\ rooms' # rooms =>
          /\ tenants' = tenants
          /\ \E c \in Clients :
               /\ tm[c].pc = "update" /\ tm'[c].pc = "idle"
               /\ \E i \in 1..Len(tenants) : tenants[i].room_id = tm[c].room_id
               /\ \A r \in DOMAIN rooms : rooms'[r] # rooms[r] => r = tm[c].room_id
    ]_vars

\* One createTenant has inserted its row and not yet written the room, while
\* another call ended with the gateway's message and wrote nothing.
C26_Witness ==
  /\ tm["c1"].pc = "update"
  /\ tm["c1"].room_id \in DOMAIN rooms
  /\ ~rooms[tm["c1"].room_id].is_occupied
  /\ ActiveTenantsOf(tm["c1"].room_id) # {}
  /\ tm["c2"].pc = "idle"
  /\ toast["c2"] = GatewayMessage
  /\ Len(tenants) = 2

\* The step shows the gateway's message where another notification stood.
ErrorShown(c) == toast'[c] = GatewayMessage /\ toast[c] # GatewayMessage

\* The lists a browser holds in memory.
Collections(c) ==
  <<tmTenants[c], availableRooms[c], maintenanceLogs[c], mmRooms[c], paProperties[c]>>

\* C27: a read refresh that returns a gateway error leaves the store and
\* every in-memory list as they were, and an answered fetch, failed or not,
\* is not pending any more: nothing issues it again.  A refresh either keeps
\* its list or replaces it by the rows read.
C27_FailedRefreshKeepsListNoRetry ==
  [][\A c \in Clients :
       /\ ((fetchTenants(c) \/ fetchAvailableRooms(c) \/ fetchMaintenanceLogs(c)
              \/ fetchRooms(c)) /\ ErrorShown(c)) =>
            (Collections(c))' = Collections(c) /\ store' = store
       /\ fetchTenants(c) =>
            /\ "tenants" \notin fetchPending'[c]
            /\ tmTenants'[c] \in {tmTenants[c], SelectTenants(tenants)}
       /\ fetchAvailableRooms(c) =>
            /\ "availableRooms" \notin fetchPending'[c]
            /\ availableRooms'[c] \in {availableRooms[c], SelectAvailableRooms(rooms)}
       /\ fetchMaintenanceLogs(c) =>
            /\ "maintenance_logs" \notin fetchPending'[c]
            /\ maintenanceLogs'[c] \in
                 {maintenanceLogs[c], SelectMaintenanceLogs(maintenance_logs)}
       /\ fetchRooms(c) =>
            /\ "rooms" \notin fetchPending'[c]
            /\ mmRooms'[c] \in {mmRooms[c], SelectRooms(rooms)}
       /\ fetchProperties(c) =>
            /\ "properties" \notin fetchPending'[c]
            /\ paProperties'[c] \in {paProperties[c], SelectPropertiesWithRooms(Db)}
    ]_vars

\* After a createTenant succeeded, the refresh of the available rooms failed:
\* the list still offers the room that is occupied by now, the gateway's
\* message is shown and no fetch of the list is pending.
C27_Witness ==
  /\ availableRooms["c1"] = {"r2"}
  /\ rooms["r2"].is_occupied
  /\ "availableRooms" \notin fetchPending["c1"]
  /\ toast["c1"] = GatewayMessage
  /\ tm["c1"].pc = "idle"

\* The positions of the active tenant rows of a table.
ActiveRows(ts) == {i \in 1..Len(ts) : ts[i].is_active}

\* C29: occupancy only grows: no step takes a room away or turns its
\* is_occupied from true to false, no step removes a tenant row or turns its
\* is_active from true to false, and so the number of active tenant rows
\* never decreases.
C29_OccupancyMonotone ==
  [][/\ \A r \in DOMAIN rooms :
          rooms[r].is_occupied => (r \in DOMAIN rooms' /\ rooms'[r].is_occupied)
     /\ \A i \in ActiveRows(tenants) : i \in ActiveRows(tenants')
     /\ Cardinality(ActiveRows(tenants')) >= Cardinality(ActiveRows(tenants))
    ]_vars

\* A room that was occupied has been assigned a second time from a stale
\* list: the second update found it occupied and left it occupied, and both
\* tenant rows are active.
C29_Witness ==
  /\ rooms["r2"].is_occupied
  /\ Cardinality(ActiveTenantsOf("r2")) = 2
  /\ \A c \in Clients : tm[c].pc = "idle"
  /\ toast["c1"] = Success

\* The tenant dashboard of browser c has stored the tenancy of its signed-in
\* user, who has one.
TenantInfoLoaded(c) ==
  /\ session[c] # NoUser
  /\ auth[c] = AuthOf(session[c])
  /\ "tenant" \in Dashboard(auth[c])
  /\ td[c].tenantInfo # {}
  /\ td[c].tenantInfo = SelectTenantInfo(tenants, auth[c].user)

\* The list of browser c shows the tickets of the room of its tenancy.
TenantLogsShown(c) ==
  \A info \in td[c].tenantInfo :
    td[c].maintenanceLogs = SelectMaintenanceLogsOfRoom(maintenance_logs, info.room_id)

\* C28: with every gateway call succeeding, once the tenant dashboard has
\* stored the tenancy of its signed-in user, the fetch of the room's tickets
\* is issued and applied: the list eventually shows the tickets of the
\* tenant's room, unless the user has left the dashboard by then.
C28_TenantLogsEventuallyShown ==
  TenantInfoLoaded("c2") ~> (TenantLogsShown("c2") \/ ~TenantInfoLoaded("c2"))

\* The step adds a ticket with the given room, property and reporter.
TicketWritten(r, p, u) ==
  /\ Len(maintenance_logs') = Len(maintenance_logs) + 1
  /\ maintenance_logs'[Len(maintenance_logs')].room_id = r
  /\ maintenance_logs'[Len(maintenance_logs')].property_id = p
  /\ maintenance_logs'[Len(maintenance_logs')].reported_by = u

\* C30: the two implementations of ticket creation write the same: in every
\* state, for every room the form can hold, whatever ticket one of them can
\* insert (room, property, reporter) the other can insert too, and where one
\* inserts nothing the other inserts nothing.
C30_BothImplementationsWriteAlike ==
  \A c \in {"c1"} : \A r \in MaintenanceFormRooms(c) :
    \A p \in PropertyIds : \A u \in Users :
      (ENABLED (handleCreateMaintenanceLogOf(c, r) /\ TicketWritten(r, p, u)))
        <=> (ENABLED (handleCreateMaintenanceLogPart000Of(c, r) /\ TicketWritten(r, p, u)))

====
